---- MODULE Spec2Model ----
(***************************************************************************)
(* Model of package goctx (TaskContext, Run, RunParallel,                  *)
(* RunParallelWithLimit) of mahadev-k/go-utils.                            *)
(*                                                                         *)
(* Goroutines are threads numbered by integers: the caller (Main), the     *)
(* goroutines a parallel call spawns (1..MaxTasks) and independent         *)
(* goroutines that record errors on a context (Recorders).  Every access   *)
(* to shared memory a goroutine makes between two lock operations is one   *)
(* step, so that the interleavings the Go scheduler allows are the         *)
(* behaviours of the model.                                                *)
(***************************************************************************)
EXTENDS Integers, Sequences, FiniteSets, TLC

\* ---------------------------------------------------------------- bounds
MaxTasks == 2       \* most tasks handed to one parallel call
MaxCalls == 2       \* operations the caller performs in one behaviour
MaxConcCalls == 1   \* the same, while other goroutines record (SpecConc)
NumRecorders == 2   \* goroutines that record concurrently (SpecRec, SpecConc)
MaxReads == 2       \* calls of Err() or Errors() the reading goroutine makes
MaxTxnFns == 2      \* most functions in each list of a SqlTxnExec
MaxItems == 2       \* most items handed to a Transformer
MaxMappers == 2     \* most mappers registered on a Transformer
MaxSteps == 2       \* most serial, and most concurrent, steps of a pipeline

\* ---------------------------------------------------------------- values
Main == 0                           \* the goroutine that makes the calls
TaskIds == 1..MaxTasks              \* goroutine i runs fns[i-1]
Limits == (-1)..MaxTasks            \* the limits handed over: negative, zero,
                                    \* below, at and above the number of tasks
Recorders == (MaxTasks + 1)..(MaxTasks + NumRecorders)
Threads == {Main} \cup TaskIds \cup Recorders

Free == -1                          \* a sync.RWMutex nobody holds
Signal == 0                         \* the plain context.Context at the root
Root == 1                           \* NewTaskContext(signal)
Child == 2                          \* NewTaskContext(root)
Ctxs == {Root, Child}

StepIds == 1..MaxSteps              \* positions in s.tasks, s.parallelTasks
Zero == 0                           \* var zero T
RunVal == 7                         \* what the fn handed to Run produces
Val(i) == 10 + i                    \* what fns[i-1] produces

\* Errors are trees: nil, a leaf (errors.New), fmt.Errorf("task %d: %w"),
\* and the joinError of errors.Join, which keeps its arguments unflattened.
Nil == [k |-> "nil"]
Base(id) == [k |-> "base", id |-> id]
Causes == {Base("a"), Base("b")}
Canceled == Base("context canceled")
DeadlineExceeded == Base("context deadline exceeded")
TaskCause(i) == IF i % 2 = 1 THEN Base("a") ELSE Base("b")
\* fmt.Errorf("error %d", i) of the goroutine r of the thread-safety test
RecorderErr(r) == [k |-> "indexed", id |-> "error", n |-> r]

\* errors.Join: nil arguments are dropped, nil when nothing is left.
Join(errs) ==
    LET nn == SelectSeq(errs, LAMBDA e : e # Nil)
    IN  IF Len(nn) = 0 THEN Nil ELSE [k |-> "join", errs |-> nn]

\* (mutant) the label is the 0-based loop index.
TaskLabel_ZeroBased(i) == i - 1

\* The label of the goroutine running fns[i-1]: the loop index is i-1 and
\* the code formats i+1 of it.
TaskLabel(i) == (i - 1) + 1

\* fmt.Errorf("task %d: %w", i+1, err)
TaskError(i, cause) == [k |-> "task", n |-> TaskLabel(i), cause |-> cause]

\* Error(): the lines of the message, one per leaf, in order.  A line is
\* the labels put in front of it and the leaf it prints.
RECURSIVE Lines(_)
Lines(e) ==
    IF e.k = "nil" THEN <<>>
    ELSE IF e.k \in {"base", "indexed"} THEN <<[pre |-> <<>>, leaf |-> e]>>
    ELSE IF e.k = "task" THEN
        LET ls == Lines(e.cause)
        IN  IF Len(ls) = 0 THEN <<[pre |-> <<e.n>>, leaf |-> Nil]>>
            ELSE <<[pre |-> <<e.n>> \o Head(ls).pre, leaf |-> Head(ls).leaf]>>
                 \o Tail(ls)
    ELSE LET RECURSIVE Cat(_)
             Cat(s) == IF Len(s) = 0 THEN <<>> ELSE Lines(Head(s)) \o Cat(Tail(s))
         IN  Cat(e.errs)

VARIABLES
    sig,        \* the parent signal: "none", "canceled" or "deadline"
    err,        \* err[c]: TaskContext.err
    multiErr,   \* multiErr[c]: TaskContext.multiErr
    mu,         \* mu[c]: the goroutine holding TaskContext.mu for writing
    recLog,     \* recLog[c]: the errors recorded on c, in the order of Lock()
    rec,        \* rec[t]: the WithError/AddError frame of goroutine t
    mpc,        \* where the caller is
    calls,      \* operations the caller has started
    call,       \* the operation the caller is in, with its arguments
    ret,        \* what the last operation returned
    spawned,    \* iterations of the spawning loop done
    tpc,        \* tpc[i]: where the goroutine of fns[i-1] is
    invoked,    \* invoked[i]: times fns[i-1] (or Run's fn, at 1) was called
    results,    \* the results slice of the parallel call
    sem,        \* len(sem): admission slots taken
    wg,         \* the WaitGroup counter
    rpc,        \* rpc[r]: where recorder goroutine r is
    \* --- SimpleTaskRunner (package taskrunner)
    ppc,        \* where the goroutine that builds and runs the pipeline is
    given,      \* the request handed to NewSimpleTaskRunner
    tasks,      \* s.tasks: for each serial step, whether it fails
    parallelTasks, \* s.parallelTasks: for each, whether it fails and locks
    taskReq,    \* s.taskReq: the marks the steps have set in it
    ser,        \* the serial loop: index, inside a step, error, and per
                \* step how often it was called and what it saw
    pspawned,   \* iterations of parallelExecutor's loop done
    g,          \* g[k]: the goroutine of parallelTasks[k]
    pmu,        \* the goroutine holding s.mu
    pwg,        \* parallelExecutor's WaitGroup counter
    chan,       \* errChan and the goroutine that closes it
    perr,       \* parallelExecutor's err
    pret,       \* what Result() returned
    again,      \* Result() has been called a second time
    execs,      \* how often each step was called since the constructor
    \* --- a goroutine reading the error state (Err, Errors)
    rd,         \* where it is, the context it reads and what it got
    readers,    \* readers[c]: holders of c.mu.RLock()
    \* --- SqlTxnExec (package dbutils)
    spc,        \* where the goroutine that builds and commits is
    txn,        \* s.txn: "open", or "missing" when BeginTx failed
    beginErr,   \* s.err: what BeginTx returned
    txnFns,     \* s.txnFns: for each function, what it does when called
    statefulTxnFns, \* s.statefulTxnFns: the same
    regs,       \* the kinds of the registered functions, in call order
    sidx,       \* the index of the loop Commit is in
    ran,        \* the functions Commit has called, in order
    serr,       \* Commit's named result err
    ends,       \* the calls of s.txn.Commit() and s.txn.Rollback() made
    sret,       \* what Commit returned
    \* --- Transformer (package stream_utils)
    xpc,        \* where the goroutine that builds and runs a Transformer is
    tin,        \* the slice handed to NewTransformer
    titems,     \* t.items: a slice and its element type
    mappers,    \* t.mappers
    tR,         \* the type parameter R of the Transformer
    tret,       \* what Result() returned
    tlog        \* the calls of mapping and filter functions Result() made

goctxVars == <<sig, err, multiErr, mu, recLog, rec, mpc, calls, call, ret,
               spawned, tpc, invoked, results, sem, wg, rpc>>

pipeVars == <<ppc, given, tasks, parallelTasks, taskReq, ser, pspawned, g,
              pmu, pwg, chan, perr, pret, again, execs>>

readVars == <<rd, readers>>

sqlVars == <<spc, txn, beginErr, txnFns, statefulTxnFns, regs, sidx, ran, serr,
             ends, sret>>

mapVars == <<xpc, tin, titems, mappers, tR, tret, tlog>>

vars == <<goctxVars, pipeVars, readVars, sqlVars, mapVars>>

\* What the operations of one component leave alone.
exceptGoctx == <<pipeVars, readVars, sqlVars, mapVars>>
exceptPipe == <<goctxVars, readVars, sqlVars, mapVars>>
exceptRead == <<goctxVars, pipeVars, sqlVars, mapVars>>
exceptSql == <<goctxVars, pipeVars, readVars, mapVars>>
exceptMap == <<goctxVars, pipeVars, readVars, sqlVars>>

NoFrame == [st |-> "none", c |-> Signal, e |-> Nil, tmp |-> <<>>]
NoCall == [kind |-> "none", c |-> Signal, n |-> 0, F |-> {}, limit |-> 0,
           short |-> FALSE, e |-> Nil, pre |-> <<>>]
NoRet == [val |-> Zero, vals |-> <<>>, err |-> Nil]
NoRecorder == [st |-> "idle", c |-> Signal, e |-> Nil]
NoSerial == [idx |-> 0, in |-> FALSE, err |-> Nil,
             inv |-> [j \in StepIds |-> 0], seen |-> [j \in StepIds |-> {}]]
NoGoroutine == [pc |-> "idle", inv |-> 0]
NoChan == [closed |-> FALSE, closer |-> "none"]
NoExecs == [serial |-> [j \in StepIds |-> 0], conc |-> [k \in StepIds |-> 0]]
NoItems == [ty |-> "none", xs |-> <<>>]
NoReader == [pc |-> "idle", op |-> "none", c |-> Signal, x |-> Signal,
             val |-> Nil, n |-> 0, seen |-> {}]

\* NewTaskContext(parent) for both contexts, nothing called yet.
Init ==
    /\ sig = "none"
    /\ err = [c \in Ctxs |-> Nil]
    /\ multiErr = [c \in Ctxs |-> <<>>]
    /\ mu = [c \in Ctxs |-> Free]
    /\ recLog = [c \in Ctxs |-> <<>>]
    /\ rec = [t \in Threads |-> NoFrame]
    /\ mpc = "idle"
    /\ calls = 0
    /\ call = NoCall
    /\ ret = NoRet
    /\ spawned = 0
    /\ tpc = [i \in TaskIds |-> "idle"]
    /\ invoked = [i \in TaskIds |-> 0]
    /\ results = <<>>
    /\ sem = 0
    /\ wg = 0
    /\ rpc = [r \in Recorders |-> NoRecorder]
    /\ ppc = "none"
    /\ given = {}
    /\ tasks = <<>>
    /\ parallelTasks = <<>>
    /\ taskReq = {}
    /\ ser = NoSerial
    /\ pspawned = 0
    /\ g = [k \in StepIds |-> NoGoroutine]
    /\ pmu = Free
    /\ pwg = 0
    /\ chan = NoChan
    /\ again = FALSE
    /\ execs = NoExecs
    /\ perr = Nil
    /\ pret = [req |-> {}, err |-> Nil]
    /\ rd = NoReader
    /\ readers = [c \in Ctxs |-> 0]
    /\ spc = "none"
    /\ txn = "none"
    /\ beginErr = Nil
    /\ txnFns = <<>>
    /\ statefulTxnFns = <<>>
    /\ regs = <<>>
    /\ sidx = 0
    /\ ran = <<>>
    /\ serr = Nil
    /\ ends = <<>>
    /\ sret = Nil
    /\ xpc = "none"
    /\ tin = <<>>
    /\ titems = NoItems
    /\ mappers = <<>>
    /\ tR = "int"
    /\ tret = [items |-> <<>>, err |-> Nil]
    /\ tlog = <<>>

\* ------------------------------------------------------- the parent signal
SigErr ==
    IF sig = "canceled" THEN Canceled
    ELSE IF sig = "deadline" THEN DeadlineExceeded
    ELSE Nil

\* cancel() is called or the deadline passes; the signal's Err() is sticky.
Cancel ==
    /\ sig = "none"
    /\ sig' \in {"canceled", "deadline"}
    /\ UNCHANGED <<err, multiErr, mu, recLog, rec, mpc, calls, call, ret,
                   spawned, tpc, invoked, results, sem, wg, rpc,
                   exceptGoctx>>

\* ------------------------------------------------------------ TaskContext
Parent(c) == IF c = Child THEN Root ELSE Signal

\* c.Context.(*TaskContext)
IsTaskContext(p) == p \in Ctxs

\* (mutant) the context's own error is looked up first.
Err_OwnFirst(c) ==
    IF err[c] # Nil THEN err[c]
    ELSE IF IsTaskContext(Parent(c)) /\ err[Parent(c)] # Nil THEN err[Parent(c)]
    ELSE SigErr

\* (mutant) the ancestor's recorded error is not looked up.
Err_SkipAncestor(c) == IF SigErr # Nil THEN SigErr ELSE err[c]

RECURSIVE Err(_)
Err(c) ==
    LET p  == Parent(c)
        pe == IF IsTaskContext(p) THEN Err(p) ELSE SigErr
    IN  IF pe # Nil THEN pe
        ELSE IF IsTaskContext(p) /\ err[p] # Nil THEN err[p]
        ELSE err[c]

\* Err() waits in RLock() while a writer holds the lock of a context whose
\* error state it reads under the lock.
RECURSIVE ErrReady(_)
ErrReady(c) ==
    LET p  == Parent(c)
        pe == IF IsTaskContext(p) THEN Err(p) ELSE SigErr
    IN  /\ IsTaskContext(p) => ErrReady(p)
        /\ (pe = Nil /\ ~(IsTaskContext(p) /\ err[p] # Nil)) => mu[c] = Free

Errors(c) == IF Len(multiErr[c]) = 0 THEN Nil ELSE Join(multiErr[c])

\* (mutant) the entry check looks at the context's own error only.
Failed_OwnErrorOnly(c) == err[c] # Nil

\* "if err := ctx.Err(); err != nil", the entry check of the three runners
Failed(c) == Err(c) # Nil

\* ------------------------------------------- WithError / AddError, by step
\* Both methods have the same body; a goroutine inside one of them has a
\* frame rec[t] whose st is the statement it executes next.

\* (mutant) a recording goes to the root context, whatever the receiver.
Frame_OnAncestor(c, e) == [st |-> "lock", c |-> Root, e |-> e, tmp |-> <<>>]

\* The call: "if err == nil { return }" is decided by the callers below, a
\* frame exists only for a non-nil error.
Frame(c, e) == [st |-> "lock", c |-> c, e |-> e, tmp |-> <<>>]

\* (mutant) a nil error is recorded like any other.
IsNoop_Never(e) == FALSE

\* "if err == nil { return }": recording nil does nothing.
IsNoop(e) == e = Nil

\* (mutant) the methods do not exclude each other.
LockFree_NoExclusion(c) == TRUE

\* c.mu.Lock() returns only when nobody holds the lock.
LockFree(c) == mu[c] = Free /\ readers[c] = 0

\* (mutant) the list is started again with the new error.
Appended_Replace(list, e) == <<e>>

\* (mutant) an error already in the list is not added again.
Appended_Dedup(list, e) ==
    IF \E j \in 1..Len(list) : list[j] = e THEN list ELSE Append(list, e)

\* append(c.multiErr, err)
Appended(list, e) == Append(list, e)

\* (mutant) the new error is joined in front of the previous primary.
NextErr_NewFirst(old, e) == IF old = Nil THEN e ELSE Join(<<e, old>>)

\* (mutant) only the first error is kept as primary.
NextErr_FirstOnly(old, e) == IF old = Nil THEN e ELSE old

\* if c.err == nil { c.err = err } else { c.err = errors.Join(c.err, err) }
NextErr(old, e) == IF old = Nil THEN e ELSE Join(<<old, e>>)

\* (mutant) Run hands back what fn produced, failed or not.
RunResult_Raw(v, e) == v

\* What Run returns for the pair (v, e) its fn produced.
RunResult(v, e) == IF e # Nil THEN Zero ELSE v

\* c.mu.Lock()
MuLock(t) ==
    /\ rec[t].st = "lock"
    /\ LockFree(rec[t].c)
    /\ mu' = [mu EXCEPT ![rec[t].c] = t]
    /\ recLog' = [recLog EXCEPT ![rec[t].c] = Append(@, rec[t].e)]
    /\ rec' = [rec EXCEPT ![t].st = "rd"]
    /\ UNCHANGED <<sig, err, multiErr, mpc, calls, call, ret, spawned, tpc,
                   invoked, results, sem, wg, rpc,
                   exceptGoctx>>

\* the read of c.multiErr in "c.multiErr = append(c.multiErr, err)"
AppendRead(t) ==
    /\ rec[t].st = "rd"
    /\ rec' = [rec EXCEPT ![t].st = "wr", ![t].tmp = multiErr[rec[t].c]]
    /\ UNCHANGED <<sig, err, multiErr, mu, recLog, mpc, calls, call, ret,
                   spawned, tpc, invoked, results, sem, wg, rpc,
                   exceptGoctx>>

\* the write of c.multiErr in the same statement
AppendWrite(t) ==
    /\ rec[t].st = "wr"
    /\ multiErr' = [multiErr EXCEPT ![rec[t].c] = Appended(rec[t].tmp, rec[t].e)]
    /\ rec' = [rec EXCEPT ![t].st = "fin", ![t].tmp = <<>>]
    /\ UNCHANGED <<sig, err, mu, recLog, mpc, calls, call, ret, spawned, tpc,
                   invoked, results, sem, wg, rpc,
                   exceptGoctx>>

\* the update of c.err, the deferred c.mu.Unlock() and the return to the
\* caller of the method: Run, a direct call, a task goroutine or a recorder.
SetErrUnlock(t) ==
    /\ rec[t].st = "fin"
    /\ err' = [err EXCEPT ![rec[t].c] = NextErr(@, rec[t].e)]
    /\ mu' = [mu EXCEPT ![rec[t].c] = Free]
    /\ rec' = [rec EXCEPT ![t] = NoFrame]
    /\ IF t = Main
       THEN /\ mpc' = "returned"
            /\ ret' = [NoRet EXCEPT !.val = IF call.kind = "run"
                                             THEN RunResult(RunVal, call.e)
                                             ELSE Zero]
            /\ UNCHANGED <<tpc, rpc>>
       ELSE IF t \in TaskIds
       THEN /\ tpc' = [tpc EXCEPT ![t] = "exit"]
            /\ UNCHANGED <<mpc, ret, rpc>>
       ELSE /\ rpc' = [rpc EXCEPT ![t].st = "done"]
            /\ UNCHANGED <<mpc, ret, tpc>>
    /\ UNCHANGED <<sig, multiErr, recLog, calls, call, spawned, invoked,
                   results, sem, wg,
                   exceptGoctx>>

\* ------------------------------------------------------------- the caller
CanCall == mpc \in {"idle", "returned"} /\ calls < MaxCalls

\* ctx.WithError(e) or ctx.AddError(e) called directly by the caller: the
\* nil check, and for a non-nil error the frame of the method's body.
Record(c, e) ==
    /\ CanCall
    /\ calls' = calls + 1
    /\ call' = [NoCall EXCEPT !.kind = "rec", !.c = c, !.e = e,
                              !.pre = multiErr[c]]
    /\ ret' = NoRet
    /\ IF IsNoop(e)
       THEN /\ mpc' = "returned"
            /\ UNCHANGED rec
       ELSE /\ mpc' = "rec_op"
            /\ rec' = [rec EXCEPT ![Main] = Frame(c, e)]
    /\ UNCHANGED <<sig, err, multiErr, mu, recLog, spawned, tpc, invoked,
                   results, sem, wg, rpc,
                   exceptGoctx>>

\* The two methods differ in what they return (the receiver, nothing).
WithError(c, e) == Record(c, e)

AddError(c, e) == Record(c, e)

\* Run(ctx, fn), up to the call of fn: the entry check.  fn is a closure
\* that will return (RunVal, e).
Run(c, e) ==
    /\ CanCall
    /\ ErrReady(c)
    /\ calls' = calls + 1
    /\ call' = [NoCall EXCEPT !.kind = "run", !.c = c, !.e = e, !.n = 1,
                              !.short = Failed(c), !.pre = multiErr[c]]
    /\ ret' = NoRet
    /\ mpc' = IF Failed(c) THEN "returned" ELSE "run_fn"
    /\ invoked' = [i \in TaskIds |-> 0]
    /\ tpc' = [i \in TaskIds |-> "idle"]
    /\ results' = <<>>
    /\ UNCHANGED <<sig, err, multiErr, mu, recLog, rec, spawned, sem, wg, rpc,
                   exceptGoctx>>

\* result, err := fn(), and what follows it up to WithError's lock.
RunFn ==
    /\ mpc = "run_fn"
    /\ invoked' = [invoked EXCEPT ![1] = @ + 1]
    /\ IF call.e # Nil
       THEN /\ rec' = [rec EXCEPT ![Main] = Frame(call.c, call.e)]
            /\ mpc' = "run_rec"
            /\ UNCHANGED ret
       ELSE /\ ret' = [NoRet EXCEPT !.val = RunResult(RunVal, call.e)]
            /\ mpc' = "returned"
            /\ UNCHANGED rec
    /\ UNCHANGED <<sig, err, multiErr, mu, recLog, calls, call, spawned, tpc,
                   results, sem, wg, rpc,
                   exceptGoctx>>

\* ----------------------------------------- RunParallel, RunParallelWithLimit
\* The entry check and the set-up before the loop.  kind is "par" for
\* RunParallel and "lim" for RunParallelWithLimit; the call hands over n
\* tasks, of which those in F will fail: fns[i-1] returns
\* (Val(i), TaskCause(i)) for i in F and (Val(i), nil) otherwise.
\* (mutant) "make([]T, 0, len(fns))": capacity instead of length.
MakeResults_Empty(n) == <<>>

\* "results := make([]T, len(fns))"
MakeResults(n) == [i \in 1..n |-> Zero]

\* "sem := make(chan struct{}, limit)" panics on a negative size.
MakeChanPanics(kind, limit) == kind = "lim" /\ limit < 0

Parallel(kind, c, n, F, limit) ==
    /\ CanCall
    /\ ErrReady(c)
    /\ calls' = calls + 1
    /\ call' = [NoCall EXCEPT !.kind = kind, !.c = c, !.n = n, !.F = F,
                              !.limit = limit, !.short = Failed(c),
                              !.pre = multiErr[c]]
    /\ invoked' = [i \in TaskIds |-> 0]
    /\ tpc' = [i \in TaskIds |-> "idle"]
    /\ spawned' = 0
    /\ sem' = 0
    /\ IF Failed(c)
       THEN /\ ret' = [NoRet EXCEPT !.err = Err(c)]
            /\ mpc' = "returned"
            /\ results' = <<>>
            /\ wg' = 0
       ELSE IF MakeChanPanics(kind, limit)
       THEN /\ ret' = NoRet
            /\ mpc' = "panicked"
            /\ results' = MakeResults(n)
            /\ wg' = 0
       ELSE /\ ret' = NoRet
            /\ mpc' = IF n = 0 THEN "wait" ELSE "spawn"
            /\ results' = MakeResults(n)
            /\ wg' = n
    /\ UNCHANGED <<sig, err, multiErr, mu, recLog, rec, rpc, exceptGoctx>>

RunParallel(c, n, F) == Parallel("par", c, n, F, 0)

RunParallelWithLimit(c, limit, n, F) == Parallel("lim", c, n, F, limit)

\* (mutant) the loop launches the goroutines from the last task down.
SpawnNext_Reversed(k) == call.n - k

\* The task whose goroutine the loop launches after k launches.
SpawnNext(k) == k + 1

\* One iteration of "for i, fn := range fns { go func() {...}() }".
Spawn ==
    /\ mpc = "spawn"
    /\ spawned < call.n
    /\ spawned' = spawned + 1
    /\ tpc' = [tpc EXCEPT ![SpawnNext(spawned)] = "start"]
    /\ mpc' = IF spawned + 1 = call.n THEN "wait" ELSE "spawn"
    /\ UNCHANGED <<sig, err, multiErr, mu, recLog, rec, calls, call, ret,
                   invoked, results, sem, wg, rpc,
                   exceptGoctx>>

\* (mutant) the send never waits: no admission gate.
SemCanSend_NoGate == TRUE

\* "sem <- struct{}{}" can proceed while the channel's buffer has room.
SemCanSend == sem < call.limit

\* RunParallel's goroutine calls fn at once.
TaskStart(i) ==
    /\ call.kind = "par"
    /\ tpc[i] = "start"
    /\ tpc' = [tpc EXCEPT ![i] = "running"]
    /\ invoked' = [invoked EXCEPT ![i] = @ + 1]
    /\ UNCHANGED <<sig, err, multiErr, mu, recLog, rec, mpc, calls, call, ret,
                   spawned, results, sem, wg, rpc,
                   exceptGoctx>>

\* RunParallelWithLimit's goroutine takes a slot, then calls fn.
TaskAdmit(i) ==
    /\ call.kind = "lim"
    /\ tpc[i] = "start"
    /\ SemCanSend
    /\ sem' = sem + 1
    /\ tpc' = [tpc EXCEPT ![i] = "running"]
    /\ invoked' = [invoked EXCEPT ![i] = @ + 1]
    /\ UNCHANGED <<sig, err, multiErr, mu, recLog, rec, mpc, calls, call, ret,
                   spawned, results, wg, rpc,
                   exceptGoctx>>

\* fn returns: "if err != nil { ctx.AddError(...) } else { ... }".
TaskReturn(i) ==
    /\ tpc[i] = "running"
    /\ IF i \in call.F
       THEN /\ rec' = [rec EXCEPT ![i] = Frame(call.c, TaskError(i, TaskCause(i)))]
            /\ tpc' = [tpc EXCEPT ![i] = "rec"]
       ELSE /\ tpc' = [tpc EXCEPT ![i] = "store"]
            /\ UNCHANGED rec
    /\ UNCHANGED <<sig, err, multiErr, mu, recLog, mpc, calls, call, ret,
                   spawned, invoked, results, sem, wg, rpc,
                   exceptGoctx>>

\* (mutant) the goroutines share the loop variable: all write the last
\* position.
ResultIndex_SharedLoopVar(i) == call.n

\* The position goroutine i writes: results[i] of the loop index.
ResultIndex(i) == i

\* resultsMu.Lock(); results[i] = result; resultsMu.Unlock()
TaskStore(i) ==
    /\ tpc[i] = "store"
    /\ results' = [results EXCEPT ![ResultIndex(i)] = Val(i)]
    /\ tpc' = [tpc EXCEPT ![i] = "exit"]
    /\ UNCHANGED <<sig, err, multiErr, mu, recLog, rec, mpc, calls, call, ret,
                   spawned, invoked, sem, wg, rpc,
                   exceptGoctx>>

\* (mutant) "<-sem" is not deferred: a goroutine whose fn failed keeps its
\* slot.
Released_OnSuccessOnly(i) == IF i \in call.F THEN 0 ELSE 1

\* "defer func() { <-sem }()": the slots goroutine i gives back on exit.
Released(i) == 1

\* The deferred calls: "<-sem" (bounded variant) and wg.Done().
TaskExit(i) ==
    /\ tpc[i] = "exit"
    /\ sem' = IF call.kind = "lim" THEN sem - Released(i) ELSE sem
    /\ wg' = wg - 1
    /\ tpc' = [tpc EXCEPT ![i] = "done"]
    /\ UNCHANGED <<sig, err, multiErr, mu, recLog, rec, mpc, calls, call, ret,
                   spawned, invoked, results, rpc,
                   exceptGoctx>>

\* (mutant) the wait ends as soon as one goroutine is done.
WaitDone_FirstDone == wg < call.n \/ call.n = 0

\* (mutant) the wait also ends when the signal is cancelled.
WaitDone_UntilCancelled == wg = 0 \/ sig # "none"

\* wg.Wait() returns when the counter is zero.
WaitDone == wg = 0

\* (mutant) the call returns ctx.Err() as its error.
WaitErr_Err(c) == Err(c)

\* "return results, ctx.Errors()"
WaitErr(c) == Errors(c)

\* wg.Wait(); return results, ctx.Errors()
Wait ==
    /\ mpc = "wait"
    /\ WaitDone
    /\ mu[call.c] = Free
    /\ ret' = [NoRet EXCEPT !.vals = results, !.err = WaitErr(call.c)]
    /\ mpc' = "returned"
    /\ UNCHANGED <<sig, err, multiErr, mu, recLog, rec, calls, call, spawned,
                   tpc, invoked, results, sem, wg, rpc,
                   exceptGoctx>>

\* ------------------------------------------------- concurrent recorders
\* A goroutine other than the caller calls AddError or WithError once.
RecorderCall(r, c, e) ==
    /\ rpc[r].st = "idle"
    /\ IF IsNoop(e)
       THEN /\ rpc' = [rpc EXCEPT ![r] = [st |-> "done", c |-> c, e |-> e]]
            /\ UNCHANGED rec
       ELSE /\ rpc' = [rpc EXCEPT ![r] = [st |-> "rec", c |-> c, e |-> e]]
            /\ rec' = [rec EXCEPT ![r] = Frame(c, e)]
    /\ UNCHANGED <<sig, err, multiErr, mu, recLog, mpc, calls, call, ret,
                   spawned, tpc, invoked, results, sem, wg,
                   exceptGoctx>>

\* ------------------------------------------- Err and Errors, by step
\* A goroutine other than the caller reads the error state while others
\* record. rd.c is the context the method was called on, rd.x the context
\* whose field is being read.

\* What an unsynchronised read of an interface value yields while another
\* goroutine writes it: neither the old nor the new value.
Torn == [k |-> "torn"]

\* A goroutine is in the statement that reads and writes x.err.
WritingErr(x) == \E t \in Threads : rec[t].st = "fin" /\ rec[t].c = x

\* The reader is reading a field of x's error state.
ReadingErr(x) == rd.x = x /\ rd.pc \in {"locked", "raw_reading"}

\* c.Err() is called.
ErrCall(c) ==
    /\ rd.pc = "idle"
    /\ rd' = [rd EXCEPT !.pc = "sig", !.op = "err", !.c = c]
    /\ UNCHANGED <<exceptRead, readers>>

\* c.Errors() is called: "c.mu.RLock()" comes first.
ErrorsCall(c) ==
    /\ rd.pc = "idle"
    /\ rd' = [rd EXCEPT !.pc = "rlock", !.op = "errors", !.c = c, !.x = c]
    /\ UNCHANGED <<exceptRead, readers>>

\* "c.Context.Err()" reaches the signal: for the child through the Err()
\* of its parent TaskContext.
ErrSignal ==
    /\ rd.pc = "sig"
    /\ IF SigErr # Nil
       THEN rd' = [rd EXCEPT !.pc = "done", !.val = SigErr]
       ELSE rd' = [rd EXCEPT !.pc = "rlock",
                             !.x = IF IsTaskContext(Parent(rd.c))
                                   THEN Parent(rd.c) ELSE rd.c]
    /\ UNCHANGED <<exceptRead, readers>>

\* x.mu.RLock() returns when no writer holds the lock.
ErrRLock ==
    /\ rd.pc = "rlock"
    /\ mu[rd.x] = Free
    /\ readers' = [readers EXCEPT ![rd.x] = @ + 1]
    /\ rd' = [rd EXCEPT !.pc = "locked"]
    /\ UNCHANGED exceptRead

\* The read under the lock and the deferred RUnlock(): "return c.err" of
\* Err, the join of Errors. A nil from the parent's Err() lets the child
\* go on to line 69.
ErrReadUnlock ==
    /\ rd.pc = "locked"
    /\ readers' = [readers EXCEPT ![rd.x] = @ - 1]
    /\ LET v == IF rd.op = "errors" THEN Errors(rd.x) ELSE err[rd.x]
       IN  IF rd.x = rd.c \/ v # Nil
           THEN rd' = [rd EXCEPT !.pc = "done", !.val = v]
           ELSE rd' = [rd EXCEPT !.pc = "raw"]
    /\ UNCHANGED exceptRead

\* "if err := tc.err; err != nil": the read of the parent's field begins;
\* no lock is taken.
ErrRawBegin ==
    /\ rd.pc = "raw"
    /\ rd' = [rd EXCEPT !.pc = "raw_reading"]
    /\ UNCHANGED <<exceptRead, readers>>

\* What the read of x.err without the lock can yield.
RawOutcomes(x) ==
    {err[x]} \cup
    (IF WritingErr(x)
     THEN {Torn} \cup {NextErr(err[x], rec[t].e) :
                          t \in {u \in Threads : rec[u].st = "fin" /\ rec[u].c = x}}
     ELSE {})

\* The read ends; a nil lets Err go on to its own error.
ErrRawEnd ==
    /\ rd.pc = "raw_reading"
    /\ \E v \in RawOutcomes(rd.x) :
          IF v # Nil
          THEN rd' = [rd EXCEPT !.pc = "done", !.val = v]
          ELSE rd' = [rd EXCEPT !.pc = "rlock", !.x = rd.c]
    /\ UNCHANGED <<exceptRead, readers>>

\* The call returns to the reading goroutine, which may call again.
\* rd.seen keeps the contexts whose Err() has returned an error to it.
ReaderReturn ==
    /\ rd.pc = "done"
    /\ rd.n + 1 < MaxReads
    /\ rd' = [NoReader EXCEPT
                 !.n = rd.n + 1,
                 !.seen = IF rd.op = "err" /\ rd.val # Nil
                          THEN rd.seen \cup {rd.c} ELSE rd.seen]
    /\ UNCHANGED <<exceptRead, readers>>

ReaderStep ==
    \/ \E c \in Ctxs : ErrCall(c)
    \/ ReaderReturn
    \/ \E c \in Ctxs : ErrorsCall(c)
    \/ ErrSignal
    \/ ErrRLock
    \/ ErrReadUnlock
    \/ ErrRawBegin
    \/ ErrRawEnd

\* ------------------------------------------------------ specifications
Errs == Causes \cup {Nil}

CallerStep ==
    \/ \E c \in Ctxs, e \in Errs : WithError(c, e)
    \/ \E c \in Ctxs, e \in Errs : AddError(c, e)
    \/ \E c \in Ctxs, e \in Errs : Run(c, e)
    \/ RunFn
    \/ \E c \in Ctxs, n \in 0..MaxTasks : \E F \in SUBSET (1..n) :
          RunParallel(c, n, F)
    \/ \E c \in Ctxs, limit \in Limits, n \in 0..MaxTasks :
          \E F \in SUBSET (1..n) : RunParallelWithLimit(c, limit, n, F)
    \/ Spawn
    \/ Wait

TaskStep ==
    \E i \in TaskIds :
        \/ TaskStart(i)
        \/ TaskAdmit(i)
        \/ TaskReturn(i)
        \/ TaskStore(i)
        \/ TaskExit(i)

RecordStep(T) ==
    \E t \in T :
        \/ MuLock(t)
        \/ AppendRead(t)
        \/ AppendWrite(t)
        \/ SetErrUnlock(t)

\* One caller; the only concurrency is that of the goroutines it spawns.
Next ==
    \/ Cancel
    \/ CallerStep
    \/ TaskStep
    \/ RecordStep({Main} \cup TaskIds)

Spec == Init /\ [][Next]_vars

\* The steps of a call in progress: the caller's loop and wait, the
\* goroutines it launched and their recordings.
Progress ==
    \/ Spawn
    \/ Wait
    \/ TaskStep
    \/ RecordStep({Main} \cup TaskIds)

\* The Go scheduler runs a goroutine that can take a step.
SpecFair == Spec /\ WF_vars(Progress)

RecorderStep ==
    \/ \E r \in Recorders, c \in Ctxs : \E e \in {RecorderErr(r), Nil} :
          RecorderCall(r, c, e)
    \/ RecordStep(Recorders)

\* The caller and, beside it, goroutines recording on the same contexts.
NextConc ==
    \/ Cancel
    \/ CallerStep /\ calls' <= MaxConcCalls
    \/ TaskStep
    \/ RecordStep({Main} \cup TaskIds)
    \/ RecorderStep

SpecConc == Init /\ [][NextConc]_vars

\* Only the recording goroutines, as in the thread-safety test.
NextRec ==
    \/ Cancel
    \/ RecorderStep

SpecRec == Init /\ [][NextRec]_vars

\* Recording goroutines and a goroutine that reads the error state.
NextRead ==
    \/ Cancel
    \/ RecorderStep
    \/ ReaderStep

SpecRead == Init /\ [][NextRead]_vars

\* ===================================================== SimpleTaskRunner
\* A request is the set of the marks set in it: 0 is a field the caller set
\* before building, serial step j sets field j, concurrent step k sets
\* field MaxSteps + k.  Every step sets its field and then returns its
\* error or nil; a concurrent step does so with or without taking the lock
\* it is handed (both kinds are in the tests).  The loop variable of
\* parallelExecutor is taken per iteration (go 1.22 and later, the
\* repository builds with go 1.23).
SerialMark(j) == j
ParallelMark(k) == MaxSteps + k
SerialErr(j) == [k |-> "indexed", id |-> "serial step", n |-> j]
ParallelErr(k) == [k |-> "indexed", id |-> "concurrent step", n |-> k]

\* NewSimpleTaskRunner(ctx, taskReq)
NewSimpleTaskRunner(req) ==
    /\ ppc = "none"
    /\ ppc' = "building"
    /\ given' = req
    /\ taskReq' = req
    /\ UNCHANGED <<tasks, parallelTasks, ser, pspawned, g, pmu, pwg, chan,
                   perr, pret, again, execs, exceptPipe>>

\* Then(taskExec): taskExec is a step that fails or not.
Then(fails) ==
    /\ ppc = "building"
    /\ Len(tasks) < MaxSteps
    /\ tasks' = Append(tasks, fails)
    /\ UNCHANGED <<ppc, given, parallelTasks, taskReq, ser, pspawned, g, pmu,
                   pwg, chan, perr, pret, again, execs, exceptPipe>>

\* Parallel(parallelExec): parallelExec fails or not, and takes mu or not.
ParallelStep(fails, locks) ==
    /\ ppc = "building"
    /\ Len(parallelTasks) < MaxSteps
    /\ parallelTasks' = Append(parallelTasks, [fails |-> fails, locks |-> locks])
    /\ UNCHANGED <<ppc, given, tasks, taskReq, ser, pspawned, g, pmu, pwg,
                   chan, perr, pret, again, execs, exceptPipe>>

\* (mutant) Result starts with the concurrent steps.
FirstPhase_Concurrent == "spawn"

\* Result: "err := s.serialExecutor()" comes first.
FirstPhase == "serial"

\* Result() is called: serialExecutor starts its loop.
Result ==
    /\ ppc = "building"
    /\ ppc' = FirstPhase
    /\ UNCHANGED <<given, tasks, parallelTasks, taskReq, ser, pspawned, g,
                   pmu, pwg, chan, perr, pret, again, execs, exceptPipe>>

\* Result() is called once more on the pipeline it has returned from:
\* nothing in Result looks at what was run before; serialExecutor starts
\* its loop over s.tasks again, parallelExecutor will make a new channel,
\* WaitGroup and goroutines.
ResultAgain ==
    /\ ppc = "returned"
    /\ ~again
    /\ again' = TRUE
    /\ ppc' = FirstPhase
    /\ ser' = NoSerial
    /\ pspawned' = 0
    /\ g' = [k \in StepIds |-> NoGoroutine]
    /\ chan' = NoChan
    /\ perr' = Nil
    /\ UNCHANGED <<given, tasks, parallelTasks, taskReq, pmu, pwg, pret,
                   execs, exceptPipe>>

\* (mutant) the loop runs over s.tasks from the end.
NextSerial_Reversed(idx) == Len(tasks) - idx

\* The step the serial loop takes after step idx.
NextSerial(idx) == idx + 1

\* serialExecutor: err := task(s.ctx, &s.taskReq), the call.
SerialCall ==
    /\ ppc = "serial"
    /\ ~ser.in
    /\ ser.idx < Len(tasks)
    /\ LET j == NextSerial(ser.idx)
       IN  /\ ser' = [ser EXCEPT !.idx = j, !.in = TRUE, !.inv[j] = @ + 1,
                                 !.seen[j] = taskReq]
           /\ execs' = [execs EXCEPT !.serial[j] = @ + 1]
    /\ UNCHANGED <<ppc, given, tasks, parallelTasks, taskReq, pspawned, g,
                   pmu, pwg, chan, perr, pret, again, exceptPipe>>

\* (mutant) the loop goes on after a failure.
SerialGoesOn_Always(e) == TRUE

\* Whether serialExecutor goes on after a step that returned e.
SerialGoesOn(e) == e = Nil

\* The step sets its field and returns; "if err != nil { return err }".
SerialReturn ==
    /\ ppc = "serial"
    /\ ser.in
    /\ taskReq' = taskReq \cup {SerialMark(ser.idx)}
    /\ LET e == IF tasks[ser.idx] THEN SerialErr(ser.idx) ELSE Nil
       IN  IF SerialGoesOn(e)
           THEN /\ ser' = [ser EXCEPT !.in = FALSE]
                /\ ppc' = "serial"
           ELSE /\ ser' = [ser EXCEPT !.in = FALSE, !.err = e]
                /\ ppc' = "spawn"
    /\ UNCHANGED <<given, tasks, parallelTasks, pspawned, g, pmu, pwg, chan,
                   perr, pret, again, execs, exceptPipe>>

\* The range over s.tasks is exhausted: "return nil".
SerialExit ==
    /\ ppc = "serial"
    /\ ~ser.in
    /\ ser.idx >= Len(tasks)
    /\ ppc' = "spawn"
    /\ UNCHANGED <<given, tasks, parallelTasks, taskReq, ser, pspawned, g,
                   pmu, pwg, chan, perr, pret, again, execs, exceptPipe>>

\* parallelExecutor: one iteration of the loop, wg.Add(1) and go func.
ParallelSpawn ==
    /\ ppc = "spawn"
    /\ pspawned < Len(parallelTasks)
    /\ pspawned' = pspawned + 1
    /\ pwg' = pwg + 1
    /\ g' = [g EXCEPT ![pspawned + 1].pc = "start"]
    /\ UNCHANGED <<ppc, given, tasks, parallelTasks, taskReq, ser, pmu, chan,
                   perr, pret, again, execs, exceptPipe>>

\* After the loop: go func() { wg.Wait(); close(errChan) }(), and the
\* caller enters "for goErr := range errChan".
SpawnCloser ==
    /\ ppc = "spawn"
    /\ pspawned >= Len(parallelTasks)
    /\ chan' = [chan EXCEPT !.closer = "waiting"]
    /\ ppc' = "collect"
    /\ UNCHANGED <<given, tasks, parallelTasks, taskReq, ser, pspawned, g,
                   pmu, pwg, perr, pret, again, execs, exceptPipe>>

\* (mutant) the goroutines share the loop variable and find the last
\* step in it.
TaskOf_SharedLoopVar(k) == Len(parallelTasks)

\* The step the goroutine of iteration k calls: "task" in the closure is
\* the variable of that iteration.
TaskOf(k) == k

\* The goroutine calls task(ctx, taskReq, mu).
StepCall(k) ==
    /\ g[k].pc = "start"
    /\ g' = [g EXCEPT ![k].pc = IF parallelTasks[TaskOf(k)].locks
                                THEN "lock" ELSE "set",
                      ![k].inv = @ + 1]
    /\ execs' = [execs EXCEPT !.conc[TaskOf(k)] = @ + 1]
    /\ UNCHANGED <<ppc, given, tasks, parallelTasks, taskReq, ser, pspawned,
                   pmu, pwg, chan, perr, pret, again, exceptPipe>>

\* (mutant) every goroutine is handed a lock of its own.
StepLockFree_OwnLock(k) == TRUE

\* The lock handed to step k is &s.mu, the same for every step: Lock()
\* returns when no other step holds it.
StepLockFree(k) == pmu = Free

\* mu.Lock() in a step that takes the lock
StepLock(k) ==
    /\ g[k].pc = "lock"
    /\ StepLockFree(k)
    /\ pmu' = k
    /\ g' = [g EXCEPT ![k].pc = "set"]
    /\ UNCHANGED <<ppc, given, tasks, parallelTasks, taskReq, ser, pspawned,
                   pwg, chan, perr, pret, again, execs, exceptPipe>>

\* The step sets its field and returns (the deferred mu.Unlock() with it).
StepReturn(k) ==
    /\ g[k].pc = "set"
    /\ taskReq' = taskReq \cup {ParallelMark(TaskOf(k))}
    /\ pmu' = IF pmu = k THEN Free ELSE pmu
    /\ g' = [g EXCEPT ![k].pc = "send"]
    /\ UNCHANGED <<ppc, given, tasks, parallelTasks, ser, pspawned, pwg, chan,
                   perr, pret, again, execs, exceptPipe>>

\* (mutant) a later failure replaces the earlier ones.
Collected_LastOnly(old, e) == IF e # Nil THEN e ELSE old

\* "if goErr != nil { err = errors.Join(err, goErr) }"
Collected(old, e) == IF e # Nil THEN Join(<<old, e>>) ELSE old

\* "errChan <- err" meets the caller's receive (the channel is unbuffered);
\* the goroutine's deferred wg.Done() follows.
SendReceive(k) ==
    /\ g[k].pc = "send"
    /\ ppc = "collect"
    /\ ~chan.closed
    /\ perr' = Collected(perr, IF parallelTasks[TaskOf(k)].fails
                               THEN ParallelErr(TaskOf(k))
                               ELSE Nil)
    /\ g' = [g EXCEPT ![k].pc = "done"]
    /\ pwg' = pwg - 1
    /\ UNCHANGED <<ppc, given, tasks, parallelTasks, taskReq, ser, pspawned,
                   pmu, chan, pret, again, execs, exceptPipe>>

\* (mutant) the closing goroutine does not wait for the steps.
CloserReady_AtOnce == TRUE

\* "wg.Wait()" of the closing goroutine returns when every step's
\* goroutine has called wg.Done().
CloserReady == pwg = 0

\* wg.Wait() has returned: close(errChan)
Close ==
    /\ chan.closer = "waiting"
    /\ CloserReady
    /\ chan' = [closed |-> TRUE, closer |-> "done"]
    /\ UNCHANGED <<ppc, given, tasks, parallelTasks, taskReq, ser, pspawned,
                   g, pmu, pwg, perr, pret, again, execs, exceptPipe>>

\* (mutant) a join that keeps its nil members.
ResultErr_KeepsNil(serial, parallel) ==
    [k |-> "join", errs |-> <<serial, parallel>>]

\* Result: err = errors.Join(err, s.parallelExecutor())
ResultErr(serial, parallel) == Join(<<serial, parallel>>)

\* (mutant) the zero request is returned with an error.
ResultReq_ZeroOnError(req, e) == IF e # Nil THEN {} ELSE req

\* Result: "return s.taskReq, err"
ResultReq(req, e) == req

\* The range over the closed channel ends; parallelExecutor returns err and
\* Result returns s.taskReq and the joined error.
ResultReturn ==
    /\ ppc = "collect"
    /\ chan.closed
    /\ pret' = [req |-> ResultReq(taskReq, ResultErr(ser.err, perr)),
                err |-> ResultErr(ser.err, perr)]
    /\ ppc' = "returned"
    /\ UNCHANGED <<given, tasks, parallelTasks, taskReq, ser, pspawned, g,
                   pmu, pwg, chan, perr, again, execs, exceptPipe>>

Requests == {{}, {0}}

Build ==
    \/ \E req \in Requests : NewSimpleTaskRunner(req)
    \/ \E fails \in BOOLEAN : Then(fails)
    \/ \E fails \in BOOLEAN, locks \in BOOLEAN : ParallelStep(fails, locks)
    \/ Result

Execute ==
    \/ SerialCall
    \/ SerialReturn
    \/ SerialExit
    \/ ParallelSpawn
    \/ SpawnCloser
    \/ \E k \in StepIds : StepCall(k) \/ StepLock(k) \/ StepReturn(k)
                             \/ SendReceive(k)
    \/ Close
    \/ ResultReturn

NextPipe ==
    \/ Build
    \/ Execute

SpecPipe == Init /\ [][NextPipe]_vars

\* The Go scheduler runs every goroutine that can take a step.
SpecPipeFair == SpecPipe /\ WF_vars(Execute)

\* The same, with a caller that calls Result() a second time.
NextPipeAgain ==
    \/ Build
    \/ ResultAgain
    \/ Execute

SpecPipeAgain == Init /\ [][NextPipeAgain]_vars

\* =================================================== SqlTxnExec (dbutils)
\* A registered function is modelled by what it does when Commit calls it.
Outcomes == {"ok", "err", "panic"}

StepErr(kind, i) == [k |-> "indexed", id |-> kind, n |-> i]
BeginErr == Base("begin failed")
CommitErr == Base("commit failed")
RollbackErr == Base("rollback failed")

\* NewSqlTxnExec: "tx, err := db.BeginTx(ctx, opts)", both kept in the struct.
NewSqlTxnExec(ok) ==
    /\ spc = "none"
    /\ spc' = "building"
    /\ txn' = IF ok THEN "open" ELSE "missing"
    /\ beginErr' = IF ok THEN Nil ELSE BeginErr
    /\ UNCHANGED <<txnFns, statefulTxnFns, regs, sidx, ran, serr, ends, sret,
                   exceptSql>>

\* s.txnFns = append(s.txnFns, txnFn)
Exec(o) ==
    /\ spc = "building"
    /\ Len(txnFns) < MaxTxnFns
    /\ txnFns' = Append(txnFns, o)
    /\ regs' = Append(regs, "fn")
    /\ UNCHANGED <<spc, txn, beginErr, statefulTxnFns, sidx, ran, serr, ends,
                   sret, exceptSql>>

\* s.statefulTxnFns = append(s.statefulTxnFns, statefulTxnFn)
StatefulExec(o) ==
    /\ spc = "building"
    /\ Len(statefulTxnFns) < MaxTxnFns
    /\ statefulTxnFns' = Append(statefulTxnFns, o)
    /\ regs' = Append(regs, "stateful")
    /\ UNCHANGED <<spc, txn, beginErr, txnFns, sidx, ran, serr, ends, sret,
                   exceptSql>>

\* Commit() is called: the deferred function is set up, the first loop
\* starts.
Commit ==
    /\ spc = "building"
    /\ spc' = "fns"
    /\ UNCHANGED <<txn, beginErr, txnFns, statefulTxnFns, regs, sidx, ran,
                   serr, ends, sret, exceptSql>>

\* One iteration of a loop: "if err = fn(...); err != nil { return }"; a
\* panic of fn goes to the deferred function's recover().
Called(kind, list) ==
    LET i == sidx + 1
    IN  /\ ran' = Append(ran, [kind |-> kind, i |-> i])
        /\ sidx' = i
        /\ IF list[i] = "ok"
           THEN serr' = Nil /\ spc' = spc
           ELSE IF list[i] = "err"
           THEN serr' = StepErr(kind, i) /\ spc' = "deferred"
           ELSE serr' = serr /\ spc' = "recover"

\* for _, writeFn := range s.txnFns
FnCall ==
    /\ spc = "fns"
    /\ sidx < Len(txnFns)
    /\ Called("fn", txnFns)
    /\ UNCHANGED <<txn, beginErr, txnFns, statefulTxnFns, regs, ends, sret,
                   exceptSql>>

\* The first loop is over, the second one starts.
FnsDone ==
    /\ spc = "fns"
    /\ sidx >= Len(txnFns)
    /\ spc' = "stateful"
    /\ sidx' = 0
    /\ UNCHANGED <<txn, beginErr, txnFns, statefulTxnFns, regs, ran, serr,
                   ends, sret, exceptSql>>

\* for _, statefulWriteFn := range s.statefulTxnFns
StatefulCall ==
    /\ spc = "stateful"
    /\ sidx < Len(statefulTxnFns)
    /\ Called("stateful", statefulTxnFns)
    /\ UNCHANGED <<txn, beginErr, txnFns, statefulTxnFns, regs, ends, sret,
                   exceptSql>>

\* The second loop is over: "return".
StatefulDone ==
    /\ spc = "stateful"
    /\ sidx >= Len(statefulTxnFns)
    /\ spc' = "deferred"
    /\ UNCHANGED <<txn, beginErr, txnFns, statefulTxnFns, regs, sidx, ran,
                   serr, ends, sret, exceptSql>>

\* (mutant) the deferred function commits whatever err is.
TxnEndCall_AlwaysCommit(e) == "commit"

\* "else if err != nil { ... s.txn.Rollback() } else { ... s.txn.Commit() }"
TxnEndCall(e) == IF e # Nil THEN "rollback" ELSE "commit"

\* err = errors.Join(err, <what Rollback() or Commit() returned>)
TxnResult(e, endErr) == Join(<<e, endErr>>)

\* The deferred function on a return. The call on a nil *sql.Tx
\* dereferences nil and panics; on a transaction it succeeds or fails.
Deferred ==
    /\ spc = "deferred"
    /\ ends' = Append(ends, TxnEndCall(serr))
    /\ IF txn = "missing"
       THEN /\ spc' = "panicked"
            /\ UNCHANGED <<txn, sret>>
       ELSE \E ok \in BOOLEAN :
               LET endErr == IF ok THEN Nil
                             ELSE IF TxnEndCall(serr) = "rollback"
                             THEN RollbackErr ELSE CommitErr
               IN  /\ sret' = TxnResult(serr, endErr)
                   /\ txn' = "ended"
                   /\ spc' = "returned"
    /\ UNCHANGED <<beginErr, txnFns, statefulTxnFns, regs, sidx, ran, serr,
                   exceptSql>>

\* The deferred function on a panic: "s.txn.Rollback(); panic(p)".
Recover ==
    /\ spc = "recover"
    /\ ends' = Append(ends, "rollback")
    /\ txn' = IF txn = "missing" THEN txn ELSE "ended"
    /\ spc' = "panicked"
    /\ UNCHANGED <<beginErr, txnFns, statefulTxnFns, regs, sidx, ran, serr,
                   sret, exceptSql>>

NextSql ==
    \/ \E ok \in BOOLEAN : NewSqlTxnExec(ok)
    \/ \E o \in Outcomes : Exec(o)
    \/ \E o \in Outcomes : StatefulExec(o)
    \/ Commit
    \/ FnCall
    \/ FnsDone
    \/ StatefulCall
    \/ StatefulDone
    \/ Deferred
    \/ Recover

SpecSql == Init /\ [][NextSql]_vars

\* ============================================ Transformer (stream_utils)
\* Items are small integers; a slice carries its element type, which the
\* type assertions of the code look at.
Vals == 0..2
Types == {"int", "str"}

\* The mappers handed to Transform: MapIt, FilterIt, MapItSimple and
\* FilterItSimple of a function, with the type parameters T (in), R (out).
ObjectMappers ==
    { [kind |-> "map",     f |-> "double",  in |-> "int", out |-> "int"],
      [kind |-> "map",     f |-> "format",  in |-> "int", out |-> "str"],
      [kind |-> "map",     f |-> "failOdd", in |-> "int", out |-> "int"],
      [kind |-> "filter",  f |-> "even",    in |-> "int", out |-> "int"],
      [kind |-> "filter",  f |-> "failTwo", in |-> "int", out |-> "int"],
      [kind |-> "smap",    f |-> "inc",     in |-> "int", out |-> "int"],
      [kind |-> "sfilter", f |-> "nonzero", in |-> "int", out |-> "int"] }

\* What a mapping function returns for item x.
FnVal(f, x) ==
    IF f = "double" THEN (2 * x) % 3
    ELSE IF f = "inc" THEN (x + 1) % 3
    ELSE IF f = "format" THEN x + 10
    ELSE x

\* What a filter function returns for item x.
FnKeeps(f, x) ==
    IF f = "even" THEN x % 2 = 0
    ELSE IF f = "nonzero" THEN x # 0
    ELSE TRUE

\* The error a MappingFn or FilterFn returns for item x, nil if none.
FnErr(f, x) ==
    IF (f = "failOdd" /\ x % 2 = 1) \/ (f = "failTwo" /\ x = 2)
    THEN [k |-> "indexed", id |-> f, n |-> x]
    ELSE Nil

TypecastErr == Base("not able to typecast items")
BadCastErr == Base("bad type casting")

\* (mutant) the filter keeps the items its function rejects.
Kept_Inverted(ok) == ~ok

\* "if ok { ... results = append(results, res.(R)) }"
Kept(ok) == ok

\* The loop of MapRunner.Result from item i on: results (res) so far, calls so
\* far. One of the four functions is set; an error ends the loop.
RECURSIVE MapLoop(_, _, _, _, _)
MapLoop(m, xs, i, res, log) ==
    IF i > Len(xs)
    THEN [items |-> [ty |-> m.out, xs |-> res], err |-> Nil, log |-> log]
    ELSE LET x    == xs[i]
             log2 == Append(log, [f |-> m.f, x |-> x])
         IN  IF m.kind \in {"map", "filter"} /\ FnErr(m.f, x) # Nil
             THEN [items |-> NoItems, err |-> FnErr(m.f, x), log |-> log2]
             ELSE IF m.kind \in {"map", "smap"}
             THEN MapLoop(m, xs, i + 1, Append(res, FnVal(m.f, x)), log2)
             ELSE IF Kept(FnKeeps(m.f, x))
             THEN MapLoop(m, xs, i + 1, Append(res, x), log2)
             ELSE MapLoop(m, xs, i + 1, res, log2)

\* MapRunner.Result(items): the type assertion, then the loop.
MapRunnerResult(m, items) ==
    IF items.ty # m.in
    THEN [items |-> NoItems, err |-> TypecastErr, log |-> <<>>]
    ELSE MapLoop(m, items.xs, 1, <<>>, <<>>)

\* (mutant) the mappers are applied from the last registered one.
MapperAt_Reversed(ms, j) == ms[Len(ms) + 1 - j]

\* The mapper the range loop of Transformer.Result takes in iteration j.
MapperAt(ms, j) == ms[j]

\* The loop of Transformer.Result from mapper j on: t.items so far, calls
\* so far; then the type assertion on t.items.
RECURSIVE TransformLoop(_, _, _, _, _)
TransformLoop(ms, j, items, R, log) ==
    IF j > Len(ms)
    THEN IF items.ty # R
         THEN [titems |-> items, items |-> <<>>, err |-> BadCastErr, log |-> log]
         ELSE [titems |-> items, items |-> items.xs, err |-> Nil, log |-> log]
    ELSE LET r == MapRunnerResult(MapperAt(ms, j), items)
         IN  IF r.err # Nil
             THEN [titems |-> items, items |-> <<>>, err |-> r.err,
                   log |-> log \o r.log]
             ELSE TransformLoop(ms, j + 1, r.items, R, log \o r.log)

Slices ==
    UNION {[1..n -> Vals] : n \in 0..MaxItems}

\* NewTransformer[T, R](items)
NewTransformer(xs, R) ==
    /\ xpc = "none"
    /\ xpc' = "building"
    /\ tin' = xs
    /\ titems' = [ty |-> "int", xs |-> xs]
    /\ tR' = R
    /\ UNCHANGED <<mappers, tret, tlog, exceptMap>>

\* t.mappers = append(t.mappers, mapper)
Transform(m) ==
    /\ xpc = "building"
    /\ Len(mappers) < MaxMappers
    /\ mappers' = Append(mappers, m)
    /\ UNCHANGED <<xpc, tin, titems, tR, tret, tlog, exceptMap>>

\* Transformer.Result()
TransformerResult ==
    /\ xpc = "building"
    /\ LET r == TransformLoop(mappers, 1, titems, tR, <<>>)
       IN  /\ titems' = r.titems
           /\ tret' = [items |-> r.items, err |-> r.err]
           /\ tlog' = r.log
    /\ xpc' = "returned"
    /\ UNCHANGED <<tin, mappers, tR, exceptMap>>

NextMap ==
    \/ \E xs \in Slices, R \in Types : NewTransformer(xs, R)
    \/ \E m \in ObjectMappers : Transform(m)
    \/ TransformerResult

SpecMap == Init /\ [][NextMap]_vars

\* ================================================================ claims
\* The caller has got the result of a parallel call that passed its entry
\* check.
ParReturned ==
    /\ mpc = "returned"
    /\ call.kind \in {"par", "lim"}
    /\ ~call.short

\* The goroutines that are inside their fn.
Running == {i \in TaskIds : tpc[i] = "running"}

\* The entries of an aggregate error: the arguments of the join.
Entries(e) == IF e.k = "join" THEN e.errs ELSE IF e = Nil THEN <<>> ELSE <<e>>

\* C1: during a RunParallelWithLimit call with limit >= 1, in every state
\* the number of tasks whose fn is executing is at most limit, and so is
\* the number of admission slots taken.
C1_AtMostLimitRunning ==
    (call.kind = "lim" /\ call.limit >= 1) =>
        /\ Cardinality(Running) <= call.limit
        /\ sem <= call.limit

\* C1 witness: more tasks than limit, the limit reached, a task waiting.
C1_Witness ==
    /\ call.kind = "lim"
    /\ call.limit >= 1
    /\ call.n > call.limit
    /\ Cardinality(Running) = call.limit
    /\ \E i \in TaskIds : tpc[i] = "start"

\* C2: a parallel call that passed the entry check returns a sequence whose
\* position i holds the value of task i if task i succeeded and the zero
\* value if it failed, whatever the interleaving.
C2_ResultsPositional ==
    ParReturned =>
        /\ Len(ret.vals) = call.n
        /\ \A i \in 1..call.n :
              ret.vals[i] = IF i \in call.F THEN Zero ELSE 10 + i

\* C2 witness: two tasks, one failed and one succeeded.
C2_Witness ==
    /\ ParReturned
    /\ call.n >= 2
    /\ call.F # {}
    /\ \E i \in 1..call.n : i \notin call.F /\ ret.vals[i] # Zero

\* C3: on a context without prior errors the aggregate error a parallel
\* call returns has exactly one entry "task i+1: cause" for every failed
\* task i (0-based; the model's tasks are 1-based, so the label is the
\* model's index), none for a task that succeeded, and is absent iff no
\* task failed.
C3_OneLabelledEntryPerFailure ==
    (ParReturned /\ call.pre = <<>>) =>
        LET es == Entries(ret.err)
        IN  /\ ret.err = Nil <=> call.F = {}
            /\ ret.err # Nil => ret.err.k = "join"
            /\ Len(es) = Cardinality(call.F)
            /\ \A i \in 1..call.n :
                  LET mine == {j \in 1..Len(es) :
                                  es[j].k = "task" /\ es[j].n = i}
                  IN  IF i \in call.F
                      THEN /\ Cardinality(mine) = 1
                           /\ \A j \in mine : es[j].cause = TaskCause(i)
                      ELSE mine = {}

\* C3 witness: the first and the last of at least two tasks failed.
C3_Witness ==
    /\ ParReturned
    /\ call.n >= 2
    /\ call.F = {1, call.n}
    /\ Len(Entries(ret.err)) = 2

\* C4: a parallel call returns only after each of its tasks was invoked
\* exactly once and has finished, also when some of them failed; no task
\* is ever invoked twice.
C4_AllTasksRunOnceBeforeReturn ==
    /\ \A i \in TaskIds : invoked[i] <= 1
    /\ ParReturned =>
          \A i \in 1..call.n : invoked[i] = 1 /\ tpc[i] = "done"

\* C4 witness: a call of two tasks returned, one of them having failed.
C4_Witness ==
    /\ ParReturned
    /\ call.n >= 2
    /\ Cardinality(call.F) = 1
    /\ \A i \in 1..call.n : tpc[i] = "done"

\* The step is the entry of Run, RunParallel or RunParallelWithLimit.
RunnerEntered ==
    /\ calls' = calls + 1
    /\ call'.kind \in {"run", "par", "lim"}

\* C5: a runner called while ctx.Err() is non-nil returns at once without
\* invoking a task: Run returns the zero value, the parallel runners return
\* that error (and no results); no task is invoked afterwards either.
C5_FailFastAtEntry ==
    /\ [][(RunnerEntered /\ Err(call'.c) # Nil) =>
             /\ mpc' = "returned"
             /\ \A i \in TaskIds : invoked'[i] = 0 /\ tpc'[i] = "idle"
             /\ call'.kind = "run" => ret'.val = Zero
             /\ call'.kind # "run" => ret'.err = Err(call'.c)]_vars
    /\ []((call.short /\ call.kind \in {"run", "par", "lim"}) =>
             /\ mpc = "returned"
             /\ \A i \in TaskIds : invoked[i] = 0 /\ tpc[i] = "idle")

\* C5 witness: a bounded parallel call with tasks was short-circuited by a
\* recorded error.
C5_Witness ==
    /\ mpc = "returned"
    /\ call.kind = "lim"
    /\ call.short
    /\ call.n >= 1
    /\ sig = "none"
    /\ ret.err # Nil

\* C6: whenever the parent signal is cancelled or past its deadline, Err()
\* of every context returns the signal's condition, with or without
\* recorded task errors.
C6_ParentCancellationWins ==
    sig # "none" =>
        \A c \in Ctxs :
            /\ Err(c) = (IF sig = "canceled" THEN Canceled ELSE DeadlineExceeded)
            /\ Err(c) \notin {Nil, err[c]}

\* C6 witness: the signal is active and errors are recorded on both contexts.
C6_Witness ==
    /\ sig # "none"
    /\ err[Root] # Nil
    /\ Len(multiErr[Child]) >= 1

\* C7: while no recording is in progress on a context, Errors() is the join
\* of exactly the non-nil errors recorded on that context, in insertion
\* order with duplicates kept, and nil iff there are none; what was
\* recorded on the other context is not in it.
C7_ErrorsJoinsAllInOrder ==
    \A c \in Ctxs :
        mu[c] = Free =>
            /\ Errors(c) = (IF Len(recLog[c]) = 0 THEN Nil
                            ELSE [k |-> "join", errs |-> recLog[c]])
            /\ Errors(c) = Nil <=> Len(recLog[c]) = 0

\* C7 witness: the same error was recorded twice on the child context.
C7_Witness ==
    /\ mu[Child] = Free
    /\ Len(multiErr[Child]) = 2
    /\ multiErr[Child][1] = multiErr[Child][2]
    /\ mpc = "returned"

\* The primary error after recording the errors of s one after the other:
\* the first one itself, then join(previous primary, new error).
RECURSIVE Cumulative(_)
Cumulative(s) ==
    IF Len(s) = 0 THEN Nil
    ELSE IF Len(s) = 1 THEN s[1]
    ELSE [k |-> "join",
          errs |-> <<Cumulative(SubSeq(s, 1, Len(s) - 1)), s[Len(s)]>>]

RECURSIVE AllLines(_)
AllLines(s) == IF Len(s) = 0 THEN <<>> ELSE Lines(Head(s)) \o AllLines(Tail(s))

RecordedOn(c) == {r \in Recorders : rpc[r].c = c /\ rpc[r].e # Nil}

\* C9: after K goroutines have called AddError/WithError concurrently with
\* non-nil errors, the list of the context holds exactly one entry per
\* call and the primary error contains each of them once.
C9_NoRecordingLost ==
    (\A r \in Recorders : rpc[r].st = "done") =>
        \A c \in Ctxs :
            /\ Len(multiErr[c]) = Cardinality(RecordedOn(c))
            /\ Len(Lines(err[c])) = Cardinality(RecordedOn(c))
            /\ \A r \in RecordedOn(c) :
                  /\ Cardinality({j \in 1..Len(multiErr[c]) :
                                     multiErr[c][j] = rpc[r].e}) = 1
                  /\ Cardinality({j \in 1..Len(Lines(err[c])) :
                                     Lines(err[c])[j].leaf = rpc[r].e}) = 1

\* C9 witness: all recorders are done and two of them recorded on the same
\* context.
C9_Witness ==
    /\ \A r \in Recorders : rpc[r].st = "done"
    /\ \E c \in Ctxs : Cardinality(RecordedOn(c)) >= 2

\* C10: Run on a context that is not failed invokes its fn exactly once; a
\* failing fn has its error recorded on the context, Err() is then non-nil
\* and Run returns the zero value; a succeeding fn has its value returned
\* unchanged and nothing is recorded.
C10_RunRecordsOrReturns ==
    (mpc = "returned" /\ call.kind = "run" /\ ~call.short) =>
        /\ invoked[1] = 1
        /\ IF call.e # Nil
           THEN /\ ret.val = Zero
                /\ Err(call.c) # Nil
                /\ multiErr[call.c] = Append(call.pre, call.e)
           ELSE /\ ret.val = 7
                /\ multiErr[call.c] = call.pre
                /\ err[call.c] = Nil

\* C10 witness: Run returned after its fn failed.
C10_Witness ==
    /\ mpc = "returned"
    /\ call.kind = "run"
    /\ ~call.short
    /\ call.e # Nil
    /\ invoked[1] = 1

\* C17 as stated: RunParallel called with k tasks returns a result
\* sequence of length k, whatever the state of the context at the call.
C17_AlwaysLengthK ==
    (mpc = "returned" /\ call.kind = "par") => Len(ret.vals) = call.n

\* C17 amended: RunParallel called with k tasks on a context that has not
\* failed returns a result sequence of length k; on a context that has
\* failed or is cancelled it returns no result sequence and that error.
C17_LengthKUnlessFailedAtEntry ==
    (mpc = "returned" /\ call.kind = "par") =>
        IF call.short
        THEN ret.vals = <<>> /\ ret.err # Nil
        ELSE Len(ret.vals) = call.n

\* C17 witness: a call of two tasks, one of which failed, returned its
\* results while the signal was cancelled.
C17_Witness ==
    /\ mpc = "returned"
    /\ call.kind = "par"
    /\ ~call.short
    /\ call.n = 2
    /\ Cardinality(call.F) = 1
    /\ Len(ret.vals) = 2
    /\ sig # "none"

\* Every goroutine of the call waits to send on the gate, nobody holds a
\* slot that could be released, and the caller waits for the goroutines.
GateBlocked ==
    /\ mpc = "wait"
    /\ call.n >= 1
    /\ \A i \in 1..call.n : tpc[i] = "start"
    /\ sem = 0
    /\ ~SemCanSend

\* C18: RunParallelWithLimit called with a limit <= 0 and at least one
\* task on a context that has not failed aborts: it does not return a
\* result and is never blocked with all its goroutines waiting on the gate.
C18_NonPositiveLimitIsFatal ==
    (call.kind = "lim" /\ call.limit <= 0 /\ call.n >= 1 /\ ~call.short) =>
        /\ mpc # "returned"
        /\ ~GateBlocked

\* Goroutine i has taken an admission slot.
Admitted(i) == tpc[i] \in {"running", "rec", "store", "exit", "done"}

\* Goroutine i has been launched.
Launched(i) == tpc[i] # "idle"

\* C19 as stated: in RunParallelWithLimit, for i < j task j never acquires
\* an admission slot before task i has acquired one.
C19_AdmittedInOrderSupplied ==
    (call.kind = "lim" /\ call.limit >= 1) =>
        \A i, j \in 1..call.n : (i < j /\ Admitted(j)) => Admitted(i)

\* C19 amended: in RunParallelWithLimit the goroutines are launched in the
\* order supplied, and a goroutine takes its slot only after its launch;
\* the order in which launched goroutines take their slots is not fixed.
C19_LaunchedInOrderSupplied ==
    (call.kind = "lim" /\ call.limit >= 1) =>
        /\ \A i, j \in 1..call.n : (i < j /\ Launched(j)) => Launched(i)
        /\ \A i \in TaskIds : Admitted(i) => (i <= spawned /\ invoked[i] = 1)

\* C19 witness: the second task holds the only slot while the first,
\* launched before it, still waits for one.
C19_Witness ==
    /\ call.kind = "lim"
    /\ call.limit = 1
    /\ call.n >= 2
    /\ tpc[1] = "start"
    /\ tpc[2] = "running"

\* C20: a parallel call that passed its entry check and returns while the
\* signal is cancelled has invoked each task once, all have finished and
\* the result sequence is complete; a call entered while the signal is
\* cancelled returns at once and starts no task.
C20_CancellationSeenOnlyAtEntry ==
    /\ []((ParReturned /\ sig # "none") =>
             /\ \A i \in 1..call.n : invoked[i] = 1 /\ tpc[i] = "done"
             /\ Len(ret.vals) = call.n
             /\ \A i \in (1..call.n) \ call.F : ret.vals[i] = Val(i))
    /\ [][(RunnerEntered /\ call'.kind # "run" /\ sig # "none") =>
             /\ mpc' = "returned"
             /\ \A i \in TaskIds : invoked'[i] = 0 /\ tpc'[i] = "idle"]_vars

\* C20 witness: the signal is cancelled while the caller waits, one task
\* is done and another has not been invoked yet.
C20_Witness ==
    /\ sig # "none"
    /\ call.kind \in {"par", "lim"}
    /\ ~call.short
    /\ mpc = "wait"
    /\ \E i \in 1..call.n : tpc[i] = "start" /\ invoked[i] = 0

\* C21: for the context built on another TaskContext, while the signal is
\* not cancelled Err() is the ancestor's recorded error whenever there is
\* one, whatever the child has recorded itself, and the child's own primary
\* error only when the ancestor has none.
C21_AncestorBeforeSelf ==
    sig = "none" =>
        /\ err[Root] # Nil => Err(Child) = err[Root]
        /\ err[Root] = Nil => Err(Child) = err[Child]
        /\ Err(Root) = err[Root]

\* C21 witness: both contexts have a recorded error, not the same one.
C21_Witness ==
    /\ sig = "none"
    /\ err[Root] # Nil
    /\ err[Child] # Nil
    /\ err[Child] # err[Root]
    /\ Err(Child) = err[Root]

\* C22: reads and writes of a context's error state are made under the
\* context's lock, the read of the ancestor's state inside the child's
\* Err() included: a goroutine reading a context's err holds its read
\* lock, and no read of err overlaps a write to it.
C22_ErrorStateUnderLock ==
    \A x \in Ctxs :
        ReadingErr(x) => readers[x] >= 1 /\ ~WritingErr(x)

\* C23: the error a parallel call returns is the join of exactly the
\* errors its own tasks recorded, one labelled entry per failed task, and
\* holds nothing that something else recorded on the context meanwhile.
C23_OnlyThisCallsErrors ==
    ParReturned =>
        LET es == Entries(ret.err)
        IN  /\ Len(es) = Cardinality(call.F)
            /\ \A j \in 1..Len(es) :
                  /\ es[j].k = "task"
                  /\ es[j].n \in call.F
                  /\ es[j].cause = TaskCause(es[j].n)

\* The goroutines that hold an admission slot.
SlotHolders == {i \in TaskIds : tpc[i] \in {"running", "rec", "store", "exit"}}

\* A RunParallelWithLimit call with limit >= 1 that passed its entry check.
Bounded == call.kind = "lim" /\ call.limit >= 1 /\ ~call.short

\* C28: a RunParallelWithLimit call with limit >= 1 returns, and every
\* goroutine it launched gets a slot; the slots taken are those of the
\* goroutines between admission and exit, so each is given back when its
\* task is over, failed or not, and none is taken when the call returns.
C28_BoundedCallTerminates ==
    /\ (Bounded /\ mpc \in {"spawn", "wait"}) ~> (mpc = "returned")
    /\ \A i \in TaskIds : (Bounded /\ tpc[i] = "start") ~> Admitted(i)
    /\ [](Bounded =>
             /\ sem = Cardinality(SlotHolders)
             /\ mpc = "returned" => sem = 0)

\* C28 witness: with one slot, the first task failed and is over, and the
\* second one has got the slot.
C28_Witness ==
    /\ Bounded
    /\ call.limit = 1
    /\ call.n = 2
    /\ 1 \in call.F
    /\ tpc[1] = "done"
    /\ tpc[2] = "running"

\* The call in progress or last returned is a runner's, on a context that
\* had an error of its own, or whose parent had one, when it was entered.
EnteredFailed ==
    /\ call.kind \in {"run", "par", "lim"}
    /\ \/ call.pre # <<>>
       \/ /\ IsTaskContext(Parent(call.c))
          /\ multiErr[Parent(call.c)] # <<>>

\* C30: a runner that short-circuits at entry leaves the error state as it
\* was: the entry step changes neither the primary errors nor the lists,
\* so ctx.Err() is the same before and after; a runner entered on a failed
\* context has recorded nothing when it returns, and a context that held
\* one recorded error still has exactly that error as primary, not a join.
C30_ShortCircuitRecordsNothing ==
    /\ [][(RunnerEntered /\ Err(call'.c) # Nil) =>
             /\ mpc' = "returned"
             /\ UNCHANGED <<err, multiErr, sig>>
             /\ \A x \in Ctxs : Err(x)' = Err(x)]_vars
    /\ [](EnteredFailed =>
             /\ multiErr[call.c] = call.pre
             /\ \A t \in {Main} \cup TaskIds : rec[t] = NoFrame
             /\ Len(call.pre) = 1 => err[call.c] = call.pre[1])

\* C30 witness: a second Run, whose fn would fail with another error, has
\* returned on a context that holds the one error recorded before it.
C30_Witness ==
    /\ mpc = "returned"
    /\ calls = 2
    /\ call.kind = "run"
    /\ call.e # Nil
    /\ Len(call.pre) = 1
    /\ call.e # call.pre[1]
    /\ err[call.c] = call.pre[1]
    /\ Err(call.c) = call.pre[1]

OwnErrorShown(c) ==
    /\ sig = "none"
    /\ IsTaskContext(Parent(c)) => err[Parent(c)] = Nil

StartsWith(t, s) == Len(s) <= Len(t) /\ SubSeq(t, 1, Len(s)) = s

\* C33: the error state only grows: every step leaves the list of a
\* context as the beginning of the new list and the errors of its primary
\* error as the beginning of the new ones, a primary error and a failing
\* Err() stay non-nil, and a goroutine that got an error from Err() on a
\* context gets an error from every later Err() on it.
C33_ErrorStateOnlyGrows ==
    /\ [][\A c \in Ctxs :
             /\ StartsWith(multiErr'[c], multiErr[c])
             /\ StartsWith(Lines(err'[c]), Lines(err[c]))
             /\ err[c] # Nil => err'[c] # Nil
             /\ Err(c) # Nil => Err(c)' # Nil]_vars
    /\ []((rd.pc = "done" /\ rd.op = "err" /\ rd.c \in rd.seen) =>
             rd.val # Nil)

\* C33 witness: the reader's second Err() on the child has returned, like
\* its first, while the context holds two errors.
C33_Witness ==
    /\ rd.pc = "done"
    /\ rd.op = "err"
    /\ rd.c = Child
    /\ Child \in rd.seen
    /\ rd.val # Nil
    /\ Len(multiErr[Child]) = 2
    /\ sig = "none"

\* C34: what is recorded on the child is not visible through its parent:
\* the parent's error state changes only in a call made on the parent, its
\* Err() and Errors() are those of the signal and of its own state, and a
\* runner entered on a parent with no cancellation and no error of its own
\* is not short-circuited, whatever the child holds.
C34_ChildErrorsStayOnChild ==
    /\ [][(err'[Root] # err[Root] \/ multiErr'[Root] # multiErr[Root]) =>
             call.c = Root]_vars
    /\ [][call.c = Child =>
             (Err(Root)' = Err(Root) \/ sig' # sig) /\ Errors(Root)' = Errors(Root)]_vars
    /\ [](/\ Err(Root) = (IF SigErr # Nil THEN SigErr ELSE err[Root])
          /\ Errors(Root) = (IF multiErr[Root] = <<>> THEN Nil
                             ELSE Join(multiErr[Root])))
    /\ [][(RunnerEntered /\ call'.c = Root /\ sig = "none"
                          /\ multiErr[Root] = <<>>) =>
             ~call'.short /\ mpc' # "returned"]_vars

\* C34 witness: Run on the parent has called its fn and returned while the
\* child holds an error that the parent's Err() does not show.
C34_Witness ==
    /\ mpc = "returned"
    /\ call.kind = "run"
    /\ call.c = Root
    /\ ~call.short
    /\ invoked[1] = 1
    /\ call.e = Nil
    /\ err[Child] # Nil
    /\ Err(Child) # Nil
    /\ Err(Root) = Nil
    /\ Errors(Root) = Nil

\* C35: a parallel call that passed its entry check and returns with the
\* signal cancelled (cancelled while it was in flight, or since) returns
\* the join of its task errors only, one labelled entry per failed task and
\* nil when none failed; the cancellation is no part of it, while Err() on
\* the context reports the cancellation.
C35_CancellationNotInReturnedError ==
    /\ [][(mpc = "wait" /\ mpc' = "returned" /\ sig # "none") =>
             /\ ret'.err = Errors(call.c)
             /\ ret'.err = Nil <=> call.F = {}]_vars
    /\ []((ParReturned /\ sig # "none") =>
             LET es == Entries(ret.err)
             IN  /\ ret.err = Nil <=> call.F = {}
                 /\ ret.err # SigErr
                 /\ Len(es) = Cardinality(call.F)
                 /\ \A j \in 1..Len(es) :
                       /\ es[j].k = "task"
                       /\ es[j].n \in call.F
                       /\ es[j].cause = TaskCause(es[j].n)
                 /\ \A j \in 1..Len(Lines(ret.err)) :
                       Lines(ret.err)[j].leaf # SigErr
                 /\ Err(call.c) = SigErr)

\* C35 witness: a call returned with the signal cancelled; one task had
\* failed, one had not.
C35_Witness ==
    /\ ParReturned
    /\ sig # "none"
    /\ call.n = 2
    /\ Cardinality(call.F) = 1
    /\ ret.err # Nil
    /\ Err(call.c) = SigErr
    /\ Err(call.c) # ret.err

\* ------------------------------------------------- claims on the pipeline
\* Serial step i has been called and has returned.
SerialReturned(i) == ser.inv[i] >= 1 /\ (ser.idx # i \/ ~ser.in)

\* The marks of the serial steps 1..j.
SerialMarks(j) == {i \in 1..j : TRUE}

\* The first serial step that fails, 0 if none does.
FirstFailing ==
    IF \E j \in 1..Len(tasks) : tasks[j]
    THEN CHOOSE j \in 1..Len(tasks) : tasks[j] /\ \A i \in 1..(j - 1) : ~tasks[i]
    ELSE 0

\* The serial steps that run: up to the first failing one.
LastSerial == IF FirstFailing = 0 THEN Len(tasks) ELSE FirstFailing

ConcurrentIds == 1..Len(parallelTasks)

PipeReturned == ppc = "returned"

\* C11: serial steps run in append order, one at a time: a step is called
\* at most once, only after every earlier step has returned, and it sees
\* the request with the mutations of exactly the earlier steps.
C11_SerialInAppendOrder ==
    \A j \in 1..Len(tasks) :
        /\ ser.inv[j] <= 1
        /\ ser.inv[j] = 1 =>
              /\ \A i \in 1..(j - 1) : SerialReturned(i) /\ ~tasks[i]
              /\ ser.seen[j] = given \cup SerialMarks(j - 1)

\* C11 witness: the second serial step is running.
C11_Witness ==
    /\ ppc = "serial"
    /\ ser.in
    /\ ser.idx = 2
    /\ ser.inv[2] = 1

C13_ConcurrentAfterSerial ==
    /\ []((\E k \in StepIds : g[k].pc # "idle") =>
             /\ ppc \in {"spawn", "collect", "returned"}
             /\ ~ser.in
             /\ \A j \in 1..LastSerial : SerialReturned(j))
    /\ [][(\E k \in StepIds : g[k].pc # "idle") => ser' = ser]_vars

\* C13 witness: a concurrent step has been called in a pipeline that has
\* serial steps as well.
C13_Witness ==
    /\ \E k \in StepIds : g[k].inv = 1
    /\ Len(tasks) >= 1

\* The errors of the steps that failed: of the first failing serial step
\* and of every failing concurrent step.
Failures ==
    (IF FirstFailing # 0 THEN {SerialErr(FirstFailing)} ELSE {})
    \cup {ParallelErr(k) : k \in {x \in ConcurrentIds : parallelTasks[x].fails}}

\* C14: when Result() has returned every concurrent step was called once,
\* whether a serial step failed or not, and the returned error consists of
\* the serial failure, if any, first and of the failure of each failing
\* concurrent step once; it is nil iff no step failed.
C14_AllConcurrentRunErrorsJoined ==
    PipeReturned =>
        LET ls == Lines(pret.err)
        IN  /\ \A k \in ConcurrentIds : g[k].inv = 1 /\ g[k].pc = "done"
            /\ Len(ls) = Cardinality(Failures)
            /\ {ls[i].leaf : i \in 1..Len(ls)} = Failures
            /\ FirstFailing # 0 => ls[1].leaf = SerialErr(FirstFailing)
            /\ pret.err = Nil <=> Failures = {}

\* C14 witness: a serial step and two concurrent steps failed.
C14_Witness ==
    /\ PipeReturned
    /\ FirstFailing # 0
    /\ Len(parallelTasks) = 2
    /\ parallelTasks[1].fails
    /\ parallelTasks[2].fails

\* C15: Result() returns the request as the executed steps left it, with
\* or without an error: the marks of the serial steps that ran and of
\* every concurrent step are in it.
C15_RequestReturnedAsReached ==
    PipeReturned =>
        /\ pret.req = taskReq
        /\ pret.req = given \cup SerialMarks(LastSerial)
                            \cup {ParallelMark(k) : k \in ConcurrentIds}

\* C15 witness: an error was returned, one concurrent step failed and the
\* mark of another, which succeeded, is in the returned request.
C15_Witness ==
    /\ PipeReturned
    /\ pret.err # Nil
    /\ \E k \in ConcurrentIds : parallelTasks[k].fails
    /\ \E k \in ConcurrentIds :
          ~parallelTasks[k].fails /\ ParallelMark(k) \in pret.req

\* C24: executed is terminal: when Result() has run, a further Result()
\* call does not run the registered steps again, so no step is called more
\* than once in the life of a pipeline.
C24_StepsRunOncePerPipeline ==
    /\ \A j \in StepIds : execs.serial[j] <= 1
    /\ \A k \in StepIds : execs.conc[k] <= 1

\* The concurrent steps that are inside their mutation.
Mutating == {k \in StepIds : g[k].pc = "set"}

\* C25: s.mu is held by concurrent steps only, never by Result(); when
\* every concurrent step takes it around its mutation, at most one step is
\* inside its mutation at a time, a step waiting for the lock waits for
\* another step that is inside its mutation, and the returned request has
\* the mutation of every concurrent step.
C25_StepsExcludeEachOther ==
    /\ pmu # Free => (pmu \in ConcurrentIds /\ g[pmu].pc = "set"
                         /\ parallelTasks[pmu].locks)
    /\ (\A k \in ConcurrentIds : parallelTasks[k].locks) =>
          /\ Cardinality(Mutating) <= 1
          /\ \A k \in Mutating : pmu = k
          /\ \A k \in ConcurrentIds :
                (g[k].pc = "lock" /\ pmu # Free) => pmu \in Mutating \ {k}
          /\ PipeReturned =>
                \A k \in ConcurrentIds : ParallelMark(k) \in pret.req

\* C25 witness: of two steps that take the lock, one is inside its
\* mutation and the other waits for the lock.
C25_Witness ==
    /\ Len(parallelTasks) = 2
    /\ \A k \in ConcurrentIds : parallelTasks[k].locks
    /\ \E k \in ConcurrentIds : g[k].pc = "set" /\ pmu = k
    /\ \E k \in ConcurrentIds : g[k].pc = "lock"

\* How often step k's error is in the error parallelExecutor collected.
Collections(k) ==
    Cardinality({i \in 1..Len(Lines(perr)) : Lines(perr)[i].leaf = ParallelErr(k)})

\* C29: Result() terminates for any number of concurrent steps; the
\* channel is closed only when every step's goroutine has sent and is
\* over, what a goroutine that is over sent has been collected exactly
\* once, and when Result() returns no goroutine is left at its send.
C29_CollectorTerminates ==
    /\ (ppc \in {"serial", "spawn", "collect"}) ~> PipeReturned
    /\ [](chan.closed =>
             /\ pwg = 0
             /\ \A k \in ConcurrentIds : g[k].pc = "done")
    /\ [](\A k \in ConcurrentIds :
             /\ Collections(k) <= 1
             /\ g[k].pc = "done" =>
                   Collections(k) = (IF parallelTasks[k].fails THEN 1 ELSE 0)
             /\ g[k].pc # "done" => Collections(k) = 0)
    /\ [](PipeReturned => \A k \in ConcurrentIds : g[k].pc = "done")

\* C29 witness: the collector has received the error of one step while
\* another step waits at its send and the channel is open.
C29_Witness ==
    /\ ppc = "collect"
    /\ ~chan.closed
    /\ \E k \in ConcurrentIds :
          g[k].pc = "done" /\ parallelTasks[k].fails /\ Collections(k) = 1
    /\ \E k \in ConcurrentIds : g[k].pc = "send" /\ parallelTasks[k].fails

\* C36: in one Result() call no registered concurrent step is called more
\* than once and no unregistered one at all; when the call returns every
\* registered step has been called exactly once, by a goroutine of its
\* own, and has made its mutation in the one request the pipeline returns;
\* the lock a step holds is the pipeline's only one.
C36_EachConcurrentStepOnce ==
    /\ \A k \in StepIds :
          /\ execs.conc[k] <= 1
          /\ execs.conc[k] = g[k].inv
          /\ k \notin ConcurrentIds => execs.conc[k] = 0
          /\ g[k].pc \in {"set", "send", "done"} /\ parallelTasks[k].locks =>
                (g[k].pc = "set" <=> pmu = k)
    /\ PipeReturned =>
          \A k \in ConcurrentIds :
              /\ execs.conc[k] = 1
              /\ ParallelMark(k) \in taskReq
              /\ ParallelMark(k) \in pret.req

\* C36 witness: Result() has returned from a pipeline of two concurrent
\* steps, one taking the lock and failing, the other doing neither.
C36_Witness ==
    /\ PipeReturned
    /\ Len(parallelTasks) = 2
    /\ parallelTasks[1].locks /\ parallelTasks[1].fails
    /\ ~parallelTasks[2].locks /\ ~parallelTasks[2].fails
    /\ execs.conc[1] = 1
    /\ execs.conc[2] = 1

EmptyPipeline == Len(tasks) = 0 /\ Len(parallelTasks) = 0

\* C16: Result() on a pipeline without steps terminates and returns the
\* request given to the constructor and a nil error.
C16_EmptyPipeline ==
    /\ []((PipeReturned /\ EmptyPipeline) =>
             pret.req = given /\ pret.err = Nil)
    /\ ((ppc \in {"serial", "spawn", "collect"} /\ EmptyPipeline)
           ~> PipeReturned)

\* C16 witness: Result() returned on an empty pipeline built on a request
\* that has a field set.
C16_Witness ==
    /\ PipeReturned
    /\ EmptyPipeline
    /\ given = {0}
    /\ pret.req = {0}

\* ------------------------------------------------ claims on SqlTxnExec
\* What the function called as ran[j] did.
RanOutcome(r) == IF r.kind = "fn" THEN txnFns[r.i] ELSE statefulTxnFns[r.i]

\* The position in the order of registration of the i-th function of a
\* kind.
RegPos(kind, i) ==
    CHOOSE p \in 1..Len(regs) :
        regs[p] = kind /\ Cardinality({q \in 1..p : regs[q] = kind}) = i

\* The order Commit calls the functions in when none fails.
ExecOrder ==
    [j \in 1..(Len(txnFns) + Len(statefulTxnFns)) |->
        IF j <= Len(txnFns) THEN [kind |-> "fn", i |-> j]
        ELSE [kind |-> "stateful", i |-> j - Len(txnFns)]]

\* The functions called that returned an error.
Failing == {j \in 1..Len(ran) : RanOutcome(ran[j]) = "err"}

\* Commit has ended on a transaction that was begun.
CommitEnded == spc \in {"returned", "panicked"} /\ beginErr = Nil

C37_BeginErrorSurfaced ==
    beginErr # Nil =>
        /\ ran = <<>>
        /\ ends = <<>>
        /\ spc # "panicked"
        /\ spc = "returned" => sret = beginErr

\* ----------------------------------------------- claims on Transformer
\* The element types of the chain fit: the input is []int, every mapper
\* takes what the one before it yields, the last yields []R.
WellTyped ==
    /\ \A j \in 1..Len(mappers) :
          mappers[j].in = (IF j = 1 THEN "int" ELSE mappers[j - 1].out)
    /\ tR = (IF Len(mappers) = 0 THEN "int" ELSE mappers[Len(mappers)].out)

\* The reference: a map stage is the pointwise image, a filter stage the
\* subsequence of the items the predicate holds for.
RefStage(m, xs) ==
    IF m.kind \in {"map", "smap"}
    THEN [i \in 1..Len(xs) |-> FnVal(m.f, xs[i])]
    ELSE SelectSeq(xs, LAMBDA x : FnKeeps(m.f, x))

\* The reference output of the first j mappers.
RECURSIVE RefOut(_)
RefOut(j) == IF j = 0 THEN tin ELSE RefStage(mappers[j], RefOut(j - 1))

\* The items of stage j's input its function returns an error for.
BadItems(j) ==
    IF mappers[j].kind \in {"map", "filter"}
    THEN {i \in 1..Len(RefOut(j - 1)) : FnErr(mappers[j].f, RefOut(j - 1)[i]) # Nil}
    ELSE {}

Least(S) == CHOOSE n \in S : \A o \in S : n <= o

\* The stages that meet an error, given that no stage before did.
FailStages == {j \in 1..Len(mappers) : BadItems(j) # {}}

\* The function calls of the first j stages, a failing stage stopping at
\* its first bad item.
RECURSIVE RefLog(_)
RefLog(j) ==
    IF j = 0 THEN <<>>
    ELSE LET n == IF BadItems(j) # {} THEN Least(BadItems(j))
                  ELSE Len(RefOut(j - 1))
         IN  RefLog(j - 1) \o
             [i \in 1..n |-> [f |-> mappers[j].f, x |-> RefOut(j - 1)[i]]]

\* C27: on a chain whose types fit, Result equals the reference
\* composition of the mappers in registration order; if a function returns
\* an error, Result returns no items and the first error met, mappers in
\* order and items in order, and the functions called are exactly those up
\* to and including the failing call.
C27_EqualsReferenceComposition ==
    (xpc = "returned" /\ WellTyped) =>
        IF FailStages = {}
        THEN /\ tret.err = Nil
             /\ tret.items = RefOut(Len(mappers))
             /\ tlog = RefLog(Len(mappers))
        ELSE LET j == Least(FailStages)
                 i == Least(BadItems(j))
             IN  /\ tret.items = <<>>
                 /\ tret.err = FnErr(mappers[j].f, RefOut(j - 1)[i])
                 /\ tlog = RefLog(j)

\* C27 witness: a map stage ran over two items, the filter stage after it
\* kept one of them.
C27_Witness ==
    /\ xpc = "returned"
    /\ WellTyped
    /\ Len(mappers) = 2
    /\ mappers[1].kind = "map"
    /\ mappers[2].kind = "filter"
    /\ FailStages = {}
    /\ Len(tin) = 2
    /\ Len(tret.items) = 1
    /\ tret.items # SubSeq(tin, 1, 1)
    /\ Len(tlog) = 4

====
